---- MODULE Spec2Model ----
(***************************************************************************)
(* Model of the VU x86-64 recompiler back end, src/core/ee/vu_jit64.cpp:   *)
(* the two host register pools (int_regs, xmm_regs) with their acquire,    *)
(* flush and ABI operations, the per-opcode handlers, and the block        *)
(* compiler.  Emitted instructions are kept as data and given their x86-64 *)
(* meaning by Exec, so that "after the emitted code runs" is a statement   *)
(* about host registers and guest-state memory.                            *)
(*                                                                         *)
(* Guest-state memory is modelled one cell per guest register; a 64-bit    *)
(* store puts the whole host register in the cell and the guest register's *)
(* value is the cell's low 16 bits.                                        *)
(***************************************************************************)
EXTENDS Integers, Sequences, FiniteSets, TLC

\* ---------------------------------------------------------------- constants

\* REG_64 encodings used by the source
RAX == 0
RCX == 1
RDX == 2
RSP == 4
RBP == 5
RSI == 6
RDI == 7
R8 == 8
R9 == 9

\* number of host registers in each pool: the loops "for (i = 0; i < 16; i++)"
NumHostRegs == 16
\* alloc_int_reg dies when vi_reg >= 16, alloc_sse_reg when vf_reg >= 32
NumIntRegs == 16
NumVfRegs == 32
\* prepare_abi dies when abi_int_count >= 6
MaxAbiInt == 6
\* jump_indirect shifts left by 3
JumpShift == 3

HostRegs == 0 .. (NumHostRegs - 1)
IntIds == 0 .. (NumIntRegs - 1)
VfIds == 0 .. (NumVfRegs - 1)

Mod16 == 2 ^ 16
Lo16(v) == v % Mod16
Hi16(v) == v - (v % Mod16)
\* the low 32 bits of v: TLC's integers are below 2^31, and every such value is
\* its own low 32 bits
Lo32(v) == IF v < 0 THEN v + 2 ^ 30 + 2 ^ 30 + 2 ^ 30 + 2 ^ 30 ELSE v
\* (v << k) truncated to 32 bits, for v >= 0
Shl32(v, k) == (v % (2 ^ (32 - k))) * (2 ^ k)

\* addresses baked into the generated code: &vu.int_gpr[i], &vu.gpr[i], &vu.PC
VuBase == 2 ^ 20
IntGprOff == 2 ^ 8
GprOff == 2 ^ 9
PCOff == 2 ^ 10
IntGprAddr(i) == VuBase + IntGprOff + i
GprAddr(i) == VuBase + GprOff + i
PCAddr == VuBase + PCOff
\* the address exec_block returns: cache.get_current_block_start()
BlockStart == 2 ^ 21

\* ---------------------------------------------------------------- bounds

\* operations performed after the warm-up
MaxOps == 2

\* ---------------------------------------------------------------- state

VARIABLES
    int_regs,        \* VU_JIT64::int_regs[16]: used, locked, age, vu_reg
    xmm_regs,        \* VU_JIT64::xmm_regs[16]
    abi_int_count,   \* VU_JIT64::abi_int_count
    abi_xmm_count,   \* VU_JIT64::abi_xmm_count
    gp,              \* host general-purpose registers while generated code runs
    xm,              \* host XMM registers
    stack,           \* host stack used by PUSH / POP
    int_gpr,         \* guest-state memory: vu.int_gpr[16]
    gpr,             \* guest-state memory: vu.gpr[32]
    PC,              \* guest-state memory: vu.PC
    dead,            \* Errors::die was called
    last,            \* the last operation: name, arguments, result, emitted code
    warm,            \* calls of the earlier code generation still to come:
                     \* integer ids warm[1]..warm[2], vector ids warm[3]..warm[4],
                     \* then prepare_abi calls number warm[5]..warm[6]
    nops,            \* operations performed after them
    program,         \* the IR block the translator yields for vu.PC, and its cycles
    block,           \* the IR::Block being drained by recompile_block
    code,            \* the code emitted into the current cache block
    cached,          \* whether the cache holds a block for vu.PC
    phase,           \* where run / exec_block / recompile_block stand
    runs,            \* completed calls of run
    compiles,        \* completed calls of recompile_block
    result1,         \* guest state after the first run
    prot,            \* protection of the current cache block: none, rw or rx
    done             \* the instructions recompile_block has taken from block

bvars == << program, block, code, cached, phase, runs, compiles, result1,
            prot, done >>

vars == << int_regs, xmm_regs, abi_int_count, abi_xmm_count, gp, xm, stack,
           int_gpr, gpr, PC, dead, last, warm, nops, bvars >>

\* the record the operators below work on: JIT fields, machine state, and the
\* instructions emitted by the operation in progress (out)
St == [ int_regs |-> int_regs, xmm_regs |-> xmm_regs,
        abi_int_count |-> abi_int_count, abi_xmm_count |-> abi_xmm_count,
        gp |-> gp, xm |-> xm, stack |-> stack,
        int_gpr |-> int_gpr, gpr |-> gpr, PC |-> PC,
        dead |-> FALSE, wild |-> FALSE, oob |-> 0, out |-> << >> ]

\* ---------------------------------------------------------------- emitter

Ins(op, a, b) == [op |-> op, a |-> a, b |-> b]

\* a store of value v at address addr
MemWrite(m, addr, v) ==
    IF addr - (VuBase + IntGprOff) \in IntIds
    THEN [m EXCEPT !.int_gpr[addr - (VuBase + IntGprOff)] = v]
    ELSE IF addr - (VuBase + GprOff) \in VfIds
    THEN [m EXCEPT !.gpr[addr - (VuBase + GprOff)] = v]
    ELSE IF addr = PCAddr
    THEN [m EXCEPT !.PC = v]
    ELSE [m EXCEPT !.wild = TRUE]

\* a load from address addr; outside the guest registers and vu.PC it yields
\* whatever is there (oob)
MemRead(m, addr) ==
    IF addr - (VuBase + IntGprOff) \in IntIds
    THEN m.int_gpr[addr - (VuBase + IntGprOff)]
    ELSE IF addr - (VuBase + GprOff) \in VfIds
    THEN m.gpr[addr - (VuBase + GprOff)]
    ELSE IF addr = PCAddr
    THEN m.PC
    ELSE m.oob

\* the effect of one generated instruction on the machine
Exec(m, i) ==
    CASE i.op = "load_addr"       -> [m EXCEPT !.gp[i.b] = i.a]
      [] i.op = "MOV64_TO_MEM"    -> MemWrite(m, m.gp[i.b], m.gp[i.a])
      [] i.op = "MOV64_FROM_MEM"  -> [m EXCEPT !.gp[i.b] = MemRead(m, m.gp[i.a])]
      [] i.op = "MOV16_REG_IMM"   -> [m EXCEPT !.gp[i.b] = Hi16(@) + Lo16(i.a)]
      [] i.op = "MOV16_REG"       -> [m EXCEPT !.gp[i.b] = Hi16(@) + Lo16(m.gp[i.a])]
      [] i.op = "ADD16_REG_IMM"   -> [m EXCEPT !.gp[i.b] = Hi16(@) + Lo16(Lo16(@) + i.a)]
      [] i.op = "MOV32_MI_MEM"    -> MemWrite(m, m.gp[i.b], Lo32(i.a))
      [] i.op = "MOV32_TO_MEM"    -> MemWrite(m, m.gp[i.b], Lo32(m.gp[i.a]))
      [] i.op = "MOV64_OI"        -> [m EXCEPT !.gp[i.b] = i.a]
      [] i.op = "SHL32_REG_IMM"   -> [m EXCEPT !.gp[i.b] = Shl32(@, i.a)]
      [] i.op = "MOV64_MR"        -> [m EXCEPT !.gp[i.b] = m.gp[i.a]]
      [] i.op = "MOVAPS_TO_MEM"   -> MemWrite(m, m.gp[i.b], m.xm[i.a])
      [] i.op = "MOVAPS_FROM_MEM" -> [m EXCEPT !.xm[i.b] = MemRead(m, m.gp[i.a])]
      [] i.op = "PUSH"            -> [m EXCEPT !.stack = Append(@, m.gp[i.a]),
                                               !.gp[RSP] = @ - 8]
      [] i.op = "POP"             -> [m EXCEPT !.stack = SubSeq(@, 1, Len(@) - 1),
                                               !.gp[i.a] = m.stack[Len(m.stack)],
                                               !.gp[RSP] = @ + 8]
      [] OTHER                    -> m

\* emitting an instruction appends it to the code; the machine fields follow
\* the code as it is emitted (it is straight-line)
Emit(m, i) == [Exec(m, i) EXCEPT !.out = Append(m.out, i)]

load_addr(m, addr, dest) == Emit(m, Ins("load_addr", addr, dest))
MOV64_TO_MEM(m, source, indir_dest) == Emit(m, Ins("MOV64_TO_MEM", source, indir_dest))
MOV64_FROM_MEM(m, indir_source, dest) == Emit(m, Ins("MOV64_FROM_MEM", indir_source, dest))
MOV16_REG_IMM(m, imm, dest) == Emit(m, Ins("MOV16_REG_IMM", imm, dest))
MOV16_REG(m, source, dest) == Emit(m, Ins("MOV16_REG", source, dest))
ADD16_REG_IMM(m, imm, dest) == Emit(m, Ins("ADD16_REG_IMM", imm, dest))
MOV32_MI_MEM(m, imm, indir_dest) == Emit(m, Ins("MOV32_MI_MEM", imm, indir_dest))
MOV32_TO_MEM(m, source, indir_dest) == Emit(m, Ins("MOV32_TO_MEM", source, indir_dest))
MOV64_OI(m, imm, dest) == Emit(m, Ins("MOV64_OI", imm, dest))
SHL32_REG_IMM(m, shift, dest) == Emit(m, Ins("SHL32_REG_IMM", shift, dest))
MOVAPS_TO_MEM(m, xmm_source, indir_dest) == Emit(m, Ins("MOVAPS_TO_MEM", xmm_source, indir_dest))
MOVAPS_FROM_MEM(m, indir_source, xmm_dest) == Emit(m, Ins("MOVAPS_FROM_MEM", indir_source, xmm_dest))
CALL(m, addr) == Emit(m, Ins("CALL", addr, 0))

\* Errors::die: the process ends
Die(m) == [m EXCEPT !.dead = TRUE]

\* ---------------------------------------------------------------- allocator

\* mutant of FindBound: the lookup loop stops one slot early (i < 15)
RECURSIVE FindBoundShort(_, _, _)
FindBoundShort(regs, vu_reg, i) ==
    IF i >= NumHostRegs - 1 THEN -1
    ELSE IF regs[i].used /\ regs[i].vu_reg = vu_reg THEN i
    ELSE FindBoundShort(regs, vu_reg, i + 1)

\* the lookup loop of alloc_int_reg / alloc_sse_reg: the first slot from i that
\* is used and bound to vu_reg, or -1 when the loop runs off the end
RECURSIVE FindBound(_, _, _)
FindBound(regs, vu_reg, i) ==
    IF i >= NumHostRegs THEN -1
    ELSE IF regs[i].used /\ regs[i].vu_reg = vu_reg THEN i
    ELSE FindBound(regs, vu_reg, i + 1)

\* mutant of IncAges: no age is incremented
IncAgesNone(regs) == regs

\* "if (regs[i].used) regs[i].age++" over the pool
IncAges(regs) ==
    [i \in HostRegs |-> IF regs[i].used THEN [regs[i] EXCEPT !.age = @ + 1]
                        ELSE regs[i]]

\* mutant of ScanInt: the candidate's age is not recorded ("age = ..." dropped)
RECURSIVE ScanIntKeepAge(_, _, _, _)
ScanIntKeepAge(regs, i, reg, age) ==
    IF i >= NumHostRegs THEN reg
    ELSE IF regs[i].locked THEN ScanIntKeepAge(regs, i + 1, reg, age)
    ELSE IF ~regs[i].used THEN i
    ELSE IF regs[i].age > age THEN ScanIntKeepAge(regs, i + 1, i, age)
    ELSE ScanIntKeepAge(regs, i + 1, reg, age)

\* mutant of ScanInt: the locked test is missing
RECURSIVE ScanIntNoLock(_, _, _, _)
ScanIntNoLock(regs, i, reg, age) ==
    IF i >= NumHostRegs THEN reg
    ELSE IF ~regs[i].used THEN i
    ELSE IF regs[i].age > age THEN ScanIntNoLock(regs, i + 1, i, regs[i].age)
    ELSE ScanIntNoLock(regs, i + 1, reg, age)

\* the selection loop of alloc_int_reg, from index i with candidate reg / age
RECURSIVE ScanInt(_, _, _, _)
ScanInt(regs, i, reg, age) ==
    IF i >= NumHostRegs THEN reg
    ELSE IF regs[i].locked THEN ScanInt(regs, i + 1, reg, age)
    ELSE IF ~regs[i].used THEN i
    ELSE IF regs[i].age > age THEN ScanInt(regs, i + 1, i, regs[i].age)
    ELSE ScanInt(regs, i + 1, reg, age)

\* the selection loop of alloc_sse_reg (no locked test)
RECURSIVE ScanSse(_, _, _, _)
ScanSse(regs, i, xmm, age) ==
    IF i >= NumHostRegs THEN xmm
    ELSE IF ~regs[i].used THEN i
    ELSE IF regs[i].age > age THEN ScanSse(regs, i + 1, i, regs[i].age)
    ELSE ScanSse(regs, i + 1, xmm, age)

\* alloc_int_reg after the lookup missed: spill the chosen slot if it is used
IntSpill(m, reg) ==
    IF m.int_regs[reg].used
    THEN MOV64_TO_MEM(load_addr(m, IntGprAddr(m.int_regs[reg].vu_reg), RAX), reg, RAX)
    ELSE m

\* alloc_int_reg: fill the chosen slot when load_state is set
IntFill(m, reg, vi_reg, load_state) ==
    IF load_state
    THEN MOV64_FROM_MEM(load_addr(m, IntGprAddr(vi_reg), RAX), RAX, reg)
    ELSE m

\* alloc_int_reg: bind the slot
Bind(regs, reg, vu_reg) ==
    [regs EXCEPT ![reg] = [@ EXCEPT !.vu_reg = vu_reg, !.used = TRUE, !.age = 0]]

\* mutant of IntMiss: the fill is emitted before the spill
IntMissFillFirst(m, vi_reg, load_state) ==
    LET m1 == [m EXCEPT !.int_regs = IncAges(@)]
        reg == ScanInt(m1.int_regs, 0, 0, 0)
        m2 == IntFill(m1, reg, vi_reg, load_state)
        m3 == IntSpill(m2, reg)
    IN [m |-> [m3 EXCEPT !.int_regs = Bind(@, reg, vi_reg)], reg |-> reg]

\* the miss path of alloc_int_reg
IntMiss(m, vi_reg, load_state) ==
    LET m1 == [m EXCEPT !.int_regs = IncAges(@)]
        reg == ScanInt(m1.int_regs, 0, 0, 0)
        m2 == IntSpill(m1, reg)
        m3 == IntFill(m2, reg, vi_reg, load_state)
    IN [m |-> [m3 EXCEPT !.int_regs = Bind(@, reg, vi_reg)], reg |-> reg]

\* mutant of alloc_int_reg: the ages are incremented before the lookup
alloc_int_reg_ages_first(m, vi_reg, load_state) ==
    IF vi_reg >= NumIntRegs THEN [m |-> Die(m), reg |-> -1]
    ELSE IF FindBound(m.int_regs, vi_reg, 0) >= 0
    THEN [m |-> [m EXCEPT !.int_regs = IncAges(@)],
          reg |-> FindBound(m.int_regs, vi_reg, 0)]
    ELSE IntMiss(m, vi_reg, load_state)

\* REG_64 alloc_int_reg(vu, vi_reg, load_state): the new state and the slot
alloc_int_reg(m, vi_reg, load_state) ==
    IF vi_reg >= NumIntRegs THEN [m |-> Die(m), reg |-> -1]
    ELSE IF FindBound(m.int_regs, vi_reg, 0) >= 0
    THEN [m |-> m, reg |-> FindBound(m.int_regs, vi_reg, 0)]
    ELSE IntMiss(m, vi_reg, load_state)

SseSpill(m, xmm) ==
    IF m.xmm_regs[xmm].used
    THEN MOVAPS_TO_MEM(load_addr(m, GprAddr(m.xmm_regs[xmm].vu_reg), RAX), xmm, RAX)
    ELSE m

SseFill(m, xmm, vf_reg, load_state) ==
    IF load_state
    THEN MOVAPS_FROM_MEM(load_addr(m, GprAddr(vf_reg), RAX), RAX, xmm)
    ELSE m

SseMiss(m, vf_reg, load_state) ==
    LET m1 == [m EXCEPT !.xmm_regs = IncAges(@)]
        xmm == ScanSse(m1.xmm_regs, 0, 0, 0)
        m2 == SseSpill(m1, xmm)
        m3 == SseFill(m2, xmm, vf_reg, load_state)
    IN [m |-> [m3 EXCEPT !.xmm_regs = Bind(@, xmm, vf_reg)], reg |-> xmm]

\* REG_64 alloc_sse_reg(vu, vf_reg, load_state)
alloc_sse_reg(m, vf_reg, load_state) ==
    IF vf_reg >= NumVfRegs THEN [m |-> Die(m), reg |-> -1]
    ELSE IF FindBound(m.xmm_regs, vf_reg, 0) >= 0
    THEN [m |-> m, reg |-> FindBound(m.xmm_regs, vf_reg, 0)]
    ELSE SseMiss(m, vf_reg, load_state)

\* the condition under which flush_regs writes a slot back and frees it
FlushCond(r) == r.used /\ r.vu_reg # 0

\* one iteration of the flush_regs loop: the XMM slot, then the integer slot
FlushXmmSlot(m, i) ==
    IF FlushCond(m.xmm_regs[i])
    THEN MOVAPS_TO_MEM(
             load_addr([m EXCEPT !.xmm_regs[i].used = FALSE],
                       GprAddr(m.xmm_regs[i].vu_reg), RAX), i, RAX)
    ELSE m

\* mutant of FlushIntSlot: the store goes to int_gpr[i], the host index
FlushIntSlotByIndex(m, i) ==
    IF FlushCond(m.int_regs[i])
    THEN MOV64_TO_MEM(
             load_addr([m EXCEPT !.int_regs[i].used = FALSE],
                       IntGprAddr(i), RAX), i, RAX)
    ELSE m

FlushIntSlot(m, i) ==
    IF FlushCond(m.int_regs[i])
    THEN MOV64_TO_MEM(
             load_addr([m EXCEPT !.int_regs[i].used = FALSE],
                       IntGprAddr(m.int_regs[i].vu_reg), RAX), i, RAX)
    ELSE m

\* the loop of flush_regs from index i; each iteration's state is computed
\* before the next one starts
RECURSIVE FlushFrom(_, _)
FlushFrom(m, i) ==
    IF i >= NumHostRegs THEN m
    ELSE CHOOSE r \in { FlushFrom(n, i + 1) :
                          n \in { FlushIntSlot(FlushXmmSlot(m, i), i) } } : TRUE

\* void flush_regs(vu)
flush_regs(m) == FlushFrom(m, 0)

\* ---------------------------------------------------------------- ABI bridge

\* const static REG_64 regs[] = {RDI, RSI, RDX, RCX, R8, R9}
AbiRegs == << RDI, RSI, RDX, RCX, R8, R9 >>

\* mutant of AbiSpill: the slot freed is int_regs[abi_int_count], not int_regs[arg]
AbiSpillByCount(m, arg) ==
    IF m.int_regs[arg].used
    THEN [MOV64_TO_MEM(load_addr(m, IntGprAddr(m.int_regs[arg].vu_reg), RAX), arg, RAX)
            EXCEPT !.int_regs[m.abi_int_count].used = FALSE,
                   !.int_regs[m.abi_int_count].age = 0]
    ELSE m

\* prepare_abi: the argument register is given up by the allocator
AbiSpill(m, arg) ==
    IF m.int_regs[arg].used
    THEN [MOV64_TO_MEM(load_addr(m, IntGprAddr(m.int_regs[arg].vu_reg), RAX), arg, RAX)
            EXCEPT !.int_regs[arg].used = FALSE, !.int_regs[arg].age = 0]
    ELSE m

\* mutant of prepare_abi: the limit test is "abi_int_count >= 5"
prepare_abi_limit_five(m, value) ==
    IF m.abi_int_count >= MaxAbiInt - 1 THEN Die(m)
    ELSE LET arg == AbiRegs[m.abi_int_count + 1]
         IN [load_addr(AbiSpill(m, arg), value, arg) EXCEPT !.abi_int_count = @ + 1]

\* void prepare_abi(vu, value)
prepare_abi(m, value) ==
    IF m.abi_int_count >= MaxAbiInt THEN Die(m)
    ELSE LET arg == AbiRegs[m.abi_int_count + 1]
         IN [load_addr(AbiSpill(m, arg), value, arg) EXCEPT !.abi_int_count = @ + 1]

\* void call_abi_func(addr)
call_abi_func(m, addr) ==
    [CALL(m, addr) EXCEPT !.abi_int_count = 0, !.abi_xmm_count = 0]

\* ---------------------------------------------------------------- reset

\* the loop of reset(): used, locked and age of every slot; vu_reg is not written
ResetRegs(regs) ==
    [i \in HostRegs |-> [regs[i] EXCEPT !.used = FALSE, !.locked = FALSE, !.age = 0]]

\* "Lock special registers to prevent them from being used"
LockSpecial(regs) ==
    [regs EXCEPT ![RAX].locked = TRUE, ![RSP].locked = TRUE]

\* void reset()
reset(m) ==
    [m EXCEPT !.abi_int_count = 0, !.abi_xmm_count = 0,
              !.xmm_regs = ResetRegs(@),
              !.int_regs = LockSpecial(ResetRegs(@))]

\* ---------------------------------------------------------------- handlers

\* the default of alloc_int_reg's load_state, for the calls that omit it
load_state_default == TRUE

\* void load_const(vu, instr)
load_const(m, instr) ==
    LET d == alloc_int_reg(m, instr.dest, FALSE)
    IN IF d.m.dead THEN d.m
       ELSE MOV16_REG_IMM(d.m, instr.source, d.reg)

\* void move_int_reg(vu, instr): the second acquire is given dest as load_state
move_int_reg(m, instr) ==
    LET d == alloc_int_reg(m, instr.dest, FALSE)
        s == alloc_int_reg(d.m, instr.source, d.reg # 0)
    IN IF d.m.dead THEN d.m
       ELSE IF s.m.dead THEN s.m
       ELSE MOV16_REG(s.m, s.reg, d.reg)

\* void jump(vu, instr)
jump(m, instr) ==
    MOV32_MI_MEM(load_addr(m, PCAddr, RAX), instr.jump_dest, RAX)

\* void jump_and_link(vu, instr)
jump_and_link(m, instr) ==
    LET l == alloc_int_reg(jump(m, instr), instr.dest, load_state_default)
    IN IF l.m.dead THEN l.m
       ELSE MOV64_OI(l.m, instr.return_addr, l.reg)

\* void jump_indirect(vu, instr)
jump_indirect(m, instr) ==
    LET r == alloc_int_reg(m, instr.source, load_state_default)
    IN IF r.m.dead THEN r.m
       ELSE MOV32_TO_MEM(
                load_addr(SHL32_REG_IMM(r.m, JumpShift, r.reg), PCAddr, RAX),
                r.reg, RAX)

\* void add_unsigned_imm(vu, instr)
add_unsigned_imm(m, instr) ==
    LET d == alloc_int_reg(m, instr.dest, FALSE)
        s == alloc_int_reg(d.m, instr.source, load_state_default)
    IN IF d.m.dead THEN d.m
       ELSE IF s.m.dead THEN s.m
       ELSE ADD16_REG_IMM(MOV16_REG(s.m, s.reg, d.reg), instr.source2, d.reg)

\* void mul_vector_by_scalar(vu, instr)
mul_vector_by_scalar(m, instr) ==
    alloc_sse_reg(m, instr.dest, FALSE).m

\* ---------------------------------------------------------------- initial states

\* a slot before reset() has run: the constructor initialises nothing, and
\* reset() leaves vu_reg as it finds it
BlankRegs(j) ==
    [i \in HostRegs |-> [used |-> FALSE, locked |-> FALSE, age |-> 0, vu_reg |-> j]]

\* values found in never-written vu_reg fields
JunkVuRegs == {0, 3}

\* host register contents on entry to generated code, and guest-state memory
JunkGp == [i \in HostRegs |-> 5 * Mod16 + 900 + i]
JunkXm == [i \in HostRegs |-> 700 + i]
GuestInt == [i \in IntIds |-> 100 + i]
GuestVf == [i \in VfIds |-> 200 + i]

Blank(j) ==
    [ int_regs |-> BlankRegs(j), xmm_regs |-> BlankRegs(j),
      abi_int_count |-> 0, abi_xmm_count |-> 0,
      gp |-> JunkGp, xm |-> JunkXm, stack |-> << >>,
      int_gpr |-> GuestInt, gpr |-> GuestVf, PC |-> 0,
      dead |-> FALSE, wild |-> FALSE, oob |-> 0, out |-> << >> ]

\* earlier code generation: since reset(), guest integer registers 1, ..., w[1]
\* and then guest vector registers 1, ..., w[2] were acquired, in this order,
\* and then prepare_abi was called w[3] times
WarmUps == { <<0, 0, 0>>, <<13, 15, 0>>, <<14, 16, 0>>, <<3, 0, 5>> }

NoOp == [op |-> "reset", a |-> 0, b |-> 0, c |-> 0, reg |-> -1, out |-> << >>]

\* the variables take the fields of m; l describes the operation
CommitM(m, l) ==
    /\ int_regs' = m.int_regs
    /\ xmm_regs' = m.xmm_regs
    /\ abi_int_count' = m.abi_int_count
    /\ abi_xmm_count' = m.abi_xmm_count
    /\ gp' = m.gp
    /\ xm' = m.xm
    /\ stack' = m.stack
    /\ int_gpr' = m.int_gpr
    /\ gpr' = m.gpr
    /\ PC' = m.PC
    /\ dead' = m.dead
    /\ last' = l

Commit(m, l) ==
    /\ CommitM(m, l)
    /\ nops' = nops + 1
    /\ warm' = warm
    /\ UNCHANGED bvars

Init ==
    \E j \in JunkVuRegs, w \in WarmUps :
        LET m == reset(Blank(j))
        IN /\ int_regs = m.int_regs
           /\ xmm_regs = m.xmm_regs
           /\ abi_int_count = m.abi_int_count
           /\ abi_xmm_count = m.abi_xmm_count
           /\ gp = m.gp
           /\ xm = m.xm
           /\ stack = m.stack
           /\ int_gpr = m.int_gpr
           /\ gpr = m.gpr
           /\ PC = m.PC
           /\ dead = FALSE
           /\ last = NoOp
           /\ nops = 0
           /\ warm = <<1, w[1], 1, w[2], 1, w[3]>>
           /\ program = [instrs |-> << >>, cycles |-> 0]
           /\ block = << >>
           /\ code = << >>
           /\ cached = FALSE
           /\ phase = "idle"
           /\ runs = 0
           /\ compiles = 0
           /\ result1 = << >>
           /\ prot = "none"
           /\ done = << >>

\* ---------------------------------------------------------------- operations

\* inputs
IntIdIn == {-1, 0, 1, 16}
VfIdIn == {-1, 0, 31, 32}
\* what a load outside the guest registers may find
OobIn == {4242}
OperandIn == {0, 1, 15}
ImmIn == {Mod16 - 1}
ConstIn == {4660}
TargetIn == {256}
RetAddrIn == {264}
ValueIn == {77}

Acquired == warm[1] > warm[2] /\ warm[3] > warm[4]
Warmed == Acquired /\ warm[5] > warm[6]
Live == ~dead /\ Warmed /\ nops < MaxOps

\* the guest ids the next alloc_int_reg / alloc_sse_reg call may be given
IntIdNow == IF warm[1] <= warm[2] THEN {warm[1]} ELSE IF Live THEN IntIdIn ELSE {}
VfIdNow == IF warm[1] <= warm[2] THEN {}
           ELSE IF warm[3] <= warm[4] THEN {warm[3]}
           ELSE IF Live THEN VfIdIn ELSE {}
LoadNow == IF Acquired THEN BOOLEAN ELSE {TRUE}

Op(name, a, b, c, reg, m) ==
    [op |-> name, a |-> a, b |-> b, c |-> c, reg |-> reg, out |-> m.out]

Instr(dest, source, source2, jump_dest, return_addr) ==
    [dest |-> dest, source |-> source, source2 |-> source2,
     jump_dest |-> jump_dest, return_addr |-> return_addr]

Reset ==
    /\ Live
    /\ Commit(reset(St), Op("reset", 0, 0, 0, -1, St))

AllocInt ==
    /\ ~dead
    /\ \E g \in IntIdNow, l \in LoadNow, o \in OobIn :
         LET r == alloc_int_reg([St EXCEPT !.oob = o], g, l)
         IN CommitM(r.m, Op("alloc_int_reg", g, l, 0, r.reg, r.m))
    /\ warm' = IF warm[1] > warm[2] THEN warm ELSE [warm EXCEPT ![1] = @ + 1]
    /\ nops' = IF warm[1] > warm[2] THEN nops + 1 ELSE nops
    /\ UNCHANGED bvars

AllocSse ==
    /\ ~dead
    /\ \E g \in VfIdNow, l \in LoadNow, o \in OobIn :
         LET r == alloc_sse_reg([St EXCEPT !.oob = o], g, l)
         IN CommitM(r.m, Op("alloc_sse_reg", g, l, 0, r.reg, r.m))
    /\ warm' = IF warm[3] > warm[4] THEN warm ELSE [warm EXCEPT ![3] = @ + 1]
    /\ nops' = IF warm[3] > warm[4] THEN nops + 1 ELSE nops
    /\ UNCHANGED bvars

FlushRegs ==
    /\ Live
    /\ LET m == flush_regs(St)
       IN Commit(m, Op("flush_regs", 0, 0, 0, -1, m))

PrepareAbi ==
    /\ ~dead
    /\ Live \/ (Acquired /\ ~Warmed)
    /\ \E v \in ValueIn :
         LET m == prepare_abi(St, v)
         IN CommitM(m, Op("prepare_abi", v, 0, 0,
                          IF m.dead THEN -1 ELSE AbiRegs[abi_int_count + 1], m))
    /\ warm' = IF Warmed THEN warm ELSE [warm EXCEPT ![5] = @ + 1]
    /\ nops' = IF Warmed THEN nops + 1 ELSE nops
    /\ UNCHANGED bvars

CallAbiFunc ==
    /\ Live
    /\ LET m == call_abi_func(St, 0)
       IN Commit(m, Op("call_abi_func", 0, 0, 0, -1, m))

LoadConst ==
    /\ Live
    /\ \E d \in OperandIn, k \in ConstIn :
         LET m == load_const(St, Instr(d, k, 0, 0, 0))
         IN Commit(m, Op("load_const", d, k, 0, -1, m))

MoveIntReg ==
    /\ Live
    /\ \E d \in OperandIn, s \in OperandIn :
         LET m == move_int_reg(St, Instr(d, s, 0, 0, 0))
         IN Commit(m, Op("move_int_reg", d, s, 0, -1, m))

Jump ==
    /\ Live
    /\ \E t \in TargetIn :
         LET m == jump(St, Instr(0, 0, 0, t, 0))
         IN Commit(m, Op("jump", t, 0, 0, -1, m))

JumpAndLink ==
    /\ Live
    /\ \E d \in OperandIn, t \in TargetIn, ra \in RetAddrIn :
         LET m == jump_and_link(St, Instr(d, 0, 0, t, ra))
         IN Commit(m, Op("jump_and_link", d, t, ra, -1, m))

JumpIndirect ==
    /\ Live
    /\ \E s \in OperandIn :
         LET m == jump_indirect(St, Instr(0, s, 0, 0, 0))
         IN Commit(m, Op("jump_indirect", s, 0, 0, -1, m))

AddUnsignedImm ==
    /\ Live
    /\ \E d \in OperandIn, s \in OperandIn, k \in ImmIn :
         LET m == add_unsigned_imm(St, Instr(d, s, k, 0, 0))
         IN Commit(m, Op("add_unsigned_imm", d, s, k, -1, m))

MulVectorByScalar ==
    /\ Live
    /\ \E d \in {1, 31} :
         LET m == mul_vector_by_scalar(St, Instr(d, 0, 0, 0, 0))
         IN Commit(m, Op("mul_vector_by_scalar", d, 0, 0, -1, m))

Next ==
    \/ Reset
    \/ AllocInt
    \/ AllocSse
    \/ FlushRegs
    \/ PrepareAbi
    \/ CallAbiFunc
    \/ LoadConst
    \/ MoveIntReg
    \/ Jump
    \/ JumpAndLink
    \/ JumpIndirect
    \/ AddUnsignedImm
    \/ MulVectorByScalar

Spec == Init /\ [][Next]_vars

\* ---------------------------------------------------------------- block compiler

\* bounds of the block-level specification
MaxBlockLen == 2
MaxRuns == 2

IR(op, dest, source, source2, jump_dest, return_addr) ==
    [op |-> op, dest |-> dest, source |-> source, source2 |-> source2,
     jump_dest |-> jump_dest, return_addr |-> return_addr]

\* the IR instructions the translator may produce
BlockOperandIn == {0, 1}
InstrIn ==
    {IR("LoadConst", d, k, 0, 0, 0) : d \in BlockOperandIn, k \in ConstIn}
    \cup {IR("MoveIntReg", d, s, 0, 0, 0) : d \in BlockOperandIn, s \in BlockOperandIn}
    \cup {IR("Jump", 0, 0, 0, t, 0) : t \in TargetIn}
    \cup {IR("JumpAndLink", d, 0, 0, t, ra) :
             d \in BlockOperandIn, t \in TargetIn, ra \in RetAddrIn}
    \cup {IR("VMulVectorByScalar", 1, 0, 0, 0, 0)}
    \cup {IR("JumpIndirect", 0, s, 0, 0, 0) : s \in BlockOperandIn}
    \cup {IR("AddUnsignedImm", d, s, k, 0, 0) :
             d \in BlockOperandIn, s \in BlockOperandIn, k \in ImmIn}
    \cup {IR("Unknown", 0, 0, 0, 0, 0)}
    \cup {IR("LoadConst", NumIntRegs, k, 0, 0, 0) : k \in ConstIn}

RECURSIVE SeqsUpTo(_, _)
SeqsUpTo(S, n) ==
    IF n = 0 THEN { << >> }
    ELSE LET shorter == SeqsUpTo(S, n - 1)
         IN shorter \cup { Append(q, x) : q \in shorter, x \in S }

Blocks == SeqsUpTo(InstrIn, MaxBlockLen)
CyclesIn == {9}

\* mutant of Dispatch: no default case, and a failed acquire is not fatal
DispatchNoDefault(m, instr) ==
    CASE instr.op = "LoadConst"          -> [load_const(m, instr) EXCEPT !.dead = FALSE]
      [] instr.op = "MoveIntReg"         -> move_int_reg(m, instr)
      [] instr.op = "Jump"               -> jump(m, instr)
      [] instr.op = "JumpAndLink"        -> jump_and_link(m, instr)
      [] instr.op = "VMulVectorByScalar" -> m
      [] instr.op = "JumpIndirect"       -> jump_indirect(m, instr)
      [] instr.op = "AddUnsignedImm"     -> add_unsigned_imm(m, instr)
      [] OTHER                           -> m

\* the switch of recompile_block
Dispatch(m, instr) ==
    CASE instr.op = "LoadConst"          -> load_const(m, instr)
      [] instr.op = "MoveIntReg"         -> move_int_reg(m, instr)
      [] instr.op = "Jump"               -> jump(m, instr)
      [] instr.op = "JumpAndLink"        -> jump_and_link(m, instr)
      [] instr.op = "VMulVectorByScalar" -> m
      [] instr.op = "JumpIndirect"       -> jump_indirect(m, instr)
      [] instr.op = "AddUnsignedImm"     -> add_unsigned_imm(m, instr)
      [] OTHER                           -> Die(m)

\* recompile_block before the loop: the prologue
Prologue(m) ==
    Emit(Emit(m, Ins("PUSH", RBP, 0)), Ins("MOV64_MR", RSP, RBP))

\* mutant of Epilogue: the RET is not emitted
EpilogueNoRet(m) ==
    Emit(m, Ins("POP", RBP, 0))

\* recompile_block after the loop: the epilogue
Epilogue(m) ==
    Emit(Emit(m, Ins("POP", RBP, 0)), Ins("RET", 0, 0))

\* the machine after running code from instruction k on
RECURSIVE RunFrom(_, _, _)
RunFrom(m, c, k) ==
    IF k > Len(c) THEN m
    ELSE CHOOSE r \in { RunFrom(n, c, k + 1) : n \in { Exec(m, c[k]) } } : TRUE

\* the registers run() pushes before the calls and pops after them
R12 == 12
R13 == 13
R14 == 14
R15 == 15
RBX == 3
RunSaved == << RBX, R12, R13, R14, R15, RDI >>

RECURSIVE PushAll(_, _, _)
PushAll(m, rs, k) ==
    IF k > Len(rs) THEN m ELSE PushAll(Exec(m, Ins("PUSH", rs[k], 0)), rs, k + 1)

RECURSIVE PopAll(_, _, _)
PopAll(m, rs, k) ==
    IF k < 1 THEN m ELSE PopAll(Exec(m, Ins("POP", rs[k], 0)), rs, k - 1)

\* the allocator fields follow m, the emitted code is appended to the block;
\* the guest state is not touched by compiling
CommitCompile(m) ==
    /\ int_regs' = m.int_regs
    /\ xmm_regs' = m.xmm_regs
    /\ abi_int_count' = m.abi_int_count
    /\ abi_xmm_count' = m.abi_xmm_count
    /\ dead' = m.dead
    /\ code' = code \o m.out
    /\ UNCHANGED << gp, xm, stack, int_gpr, gpr, PC, warm, nops >>

\* the machine fields follow m (generated or host code has run)
CommitRun(m) ==
    /\ gp' = m.gp
    /\ xm' = m.xm
    /\ stack' = m.stack
    /\ int_gpr' = m.int_gpr
    /\ gpr' = m.gpr
    /\ PC' = m.PC
    /\ UNCHANGED << int_regs, xmm_regs, abi_int_count, abi_xmm_count, dead,
                    warm, nops >>

InitBlock ==
    \E j \in JunkVuRegs, b \in Blocks, cy \in CyclesIn :
        LET m == reset(Blank(j))
        IN /\ int_regs = m.int_regs
           /\ xmm_regs = m.xmm_regs
           /\ abi_int_count = m.abi_int_count
           /\ abi_xmm_count = m.abi_xmm_count
           /\ gp = m.gp
           /\ xm = m.xm
           /\ stack = m.stack
           /\ int_gpr = m.int_gpr
           /\ gpr = m.gpr
           /\ PC = m.PC
           /\ dead = FALSE
           /\ last = NoOp
           /\ nops = 0
           /\ warm = <<1, 0, 1, 0, 1, 0>>
           /\ program = [instrs |-> b, cycles |-> cy]
           /\ block = << >>
           /\ code = << >>
           /\ cached = FALSE
           /\ phase = "idle"
           /\ runs = 0
           /\ compiles = 0
           /\ result1 = << >>
           /\ prot = "none"
           /\ done = << >>

\* run(), lines 362-369: the pushes, then the call of exec_block
RunEnter ==
    /\ ~dead /\ phase = "idle" /\ runs < MaxRuns
    /\ CommitRun(PushAll(St, RunSaved, 1))
    /\ phase' = "exec"
    /\ UNCHANGED << last, program, block, code, cached, runs, compiles, result1,
                    prot, done >>

\* exec_block: the block is in the cache
ExecBlockHit ==
    /\ ~dead /\ phase = "exec" /\ cached
    /\ phase' = "sealed"
    /\ UNCHANGED << int_regs, xmm_regs, abi_int_count, abi_xmm_count, gp, xm, stack,
                    int_gpr, gpr, PC, dead, last, warm, nops,
                    program, block, code, cached, runs, compiles, result1,
                    prot, done >>

\* exec_block: the block is not in the cache; translate, then recompile_block
\* up to cache.alloc_block, which reserves a writable block
ExecBlockMiss ==
    /\ ~dead /\ phase = "exec" /\ ~cached
    /\ block' = program.instrs
    /\ done' = << >>
    /\ code' = << >>
    /\ prot' = "rw"
    /\ phase' = "reserved"
    /\ UNCHANGED << int_regs, xmm_regs, abi_int_count, abi_xmm_count, gp, xm, stack,
                    int_gpr, gpr, PC, dead, last, warm, nops,
                    program, cached, runs, compiles, result1 >>

\* recompile_block, lines 265-267: the prologue
EmitPrologue ==
    /\ ~dead /\ phase = "reserved"
    /\ CommitCompile(Prologue(St))
    /\ phase' = "emitting"
    /\ UNCHANGED << last, program, block, cached, runs, compiles, result1,
                    prot, done >>

\* one iteration of the loop of recompile_block
DispatchNext ==
    /\ ~dead /\ phase = "emitting" /\ Len(block) > 0
    /\ LET m == Dispatch(St, Head(block))
       IN /\ CommitCompile(m)
          /\ last' = Op(Head(block).op, Head(block).dest, Head(block).source,
                        Head(block).source2, -1, m)
    /\ block' = Tail(block)
    /\ done' = Append(done, Head(block))
    /\ UNCHANGED << program, cached, phase, runs, compiles, result1, prot >>

\* recompile_block, line 301: the loop has ended, flush_regs
FlushBlock ==
    /\ ~dead /\ phase = "emitting" /\ Len(block) = 0
    /\ LET m == flush_regs(St)
       IN /\ CommitCompile(m)
          /\ last' = Op("flush_regs", 0, 0, 0, -1, m)
    /\ phase' = "flushed"
    /\ UNCHANGED << program, block, cached, runs, compiles, result1, prot, done >>

\* recompile_block, lines 303-304: the cycle count
LoadCycles ==
    /\ ~dead /\ phase = "flushed"
    /\ CommitCompile(MOV16_REG_IMM(St, program.cycles, RAX))
    /\ phase' = "counted"
    /\ UNCHANGED << last, program, block, cached, runs, compiles, result1,
                    prot, done >>

\* recompile_block, lines 306-308: the epilogue
EmitEpilogue ==
    /\ ~dead /\ phase = "counted"
    /\ CommitCompile(Epilogue(St))
    /\ phase' = "closed"
    /\ UNCHANGED << last, program, block, cached, runs, compiles, result1,
                    prot, done >>

\* recompile_block, lines 310-311: cache.set_current_block_rx
SealBlock ==
    /\ ~dead /\ phase = "closed"
    /\ prot' = "rx"
    /\ cached' = TRUE
    /\ phase' = "sealed"
    /\ compiles' = compiles + 1
    /\ UNCHANGED << int_regs, xmm_regs, abi_int_count, abi_xmm_count, gp, xm, stack,
                    int_gpr, gpr, PC, dead, last, warm, nops,
                    program, block, code, runs, result1, done >>

\* run(), lines 370-377: the call into the block, whose address exec_block
\* returned in RAX, then the pops
RunBlock ==
    /\ ~dead /\ phase = "sealed"
    /\ LET m == PopAll(RunFrom([St EXCEPT !.gp[RAX] = BlockStart], code, 1),
                       RunSaved, Len(RunSaved))
       IN /\ CommitRun(m)
          /\ result1' = IF runs = 0
                        THEN [int_gpr |-> m.int_gpr, gpr |-> m.gpr, PC |-> m.PC]
                        ELSE result1
    /\ phase' = "ran"
    /\ runs' = runs + 1
    /\ UNCHANGED << last, program, block, code, cached, compiles, prot, done >>

\* the caller comes back for the same vu.PC with the guest state and host
\* registers it had the first time; the cache entry may have been invalidated
\* in between
Again ==
    /\ ~dead /\ phase = "ran" /\ runs < MaxRuns
    /\ \E invalidate \in BOOLEAN :
         /\ cached' = (cached /\ ~invalidate)
         /\ code' = IF invalidate THEN << >> ELSE code
         /\ prot' = IF invalidate THEN "none" ELSE prot
    /\ gp' = JunkGp /\ xm' = JunkXm /\ stack' = << >>
    /\ int_gpr' = GuestInt /\ gpr' = GuestVf /\ PC' = 0
    /\ phase' = "idle"
    /\ UNCHANGED << int_regs, xmm_regs, abi_int_count, abi_xmm_count, dead, last,
                    warm, nops, program, block, runs, compiles, result1, done >>

NextBlock ==
    \/ RunEnter
    \/ ExecBlockHit
    \/ ExecBlockMiss
    \/ EmitPrologue
    \/ DispatchNext
    \/ FlushBlock
    \/ LoadCycles
    \/ EmitEpilogue
    \/ SealBlock
    \/ RunBlock
    \/ Again

SpecBlock == InitBlock /\ [][NextBlock]_vars

\* where recompile_block stands between cache.alloc_block and its return
CompilePhases == {"reserved", "emitting", "flushed", "counted", "closed"}

\* recompile_block is synchronous: once entered, it runs until it returns or
\* dies.  Proceeds is a step of it as seen on phase and block: in these phases
\* the steps of NextBlock are EmitPrologue, DispatchNext, FlushBlock, LoadCycles,
\* EmitEpilogue and SealBlock, one of them is enabled, and each changes phase
\* or block in this way.
Proceeds ==
    /\ ~dead /\ phase \in CompilePhases
    /\ phase' \in CompilePhases \cup {"sealed"}
    /\ block' \in (IF block = << >> THEN {block} ELSE {block, Tail(block)})

SpecBlockFair == SpecBlock /\ WF_<<phase, block>>(Proceeds)

\* ---------------------------------------------------------------- properties

\* the slots of a pool that are used and bound to guest id g
BoundSlots(regs, g) == {i \in HostRegs : regs[i].used /\ regs[i].vu_reg = g}
IsBound(regs, g) == BoundSlots(regs, g) # {}
SlotOf(regs, g) == CHOOSE i \in BoundSlots(regs, g) : TRUE
UsedSlots(regs) == {i \in HostRegs : regs[i].used}
Unlocked(regs) == {i \in HostRegs : ~regs[i].locked}

\* the current value of a guest register: in its bound slot if there is one,
\* in guest-state memory otherwise
IntValue(g) == IF IsBound(int_regs, g) THEN gp[SlotOf(int_regs, g)] ELSE int_gpr[g]
VfValue(g) == IF IsBound(xmm_regs, g) THEN xm[SlotOf(xmm_regs, g)] ELSE gpr[g]

\* the operations that acquire in the integer pool / in the vector pool
IntAcquirers == {"alloc_int_reg", "load_const", "move_int_reg", "jump_and_link",
                 "jump_indirect", "add_unsigned_imm"}
SseAcquirers == {"alloc_sse_reg", "mul_vector_by_scalar"}

\* the instructions of code with opcode op
OpsIn(c, op) == {k \in 1 .. Len(c) : c[k].op = op}

\* C1: after flush_regs returns, every slot of both pools is unused.
C1_FlushLeavesNoSlotUsed ==
    last.op = "flush_regs" =>
        \A i \in HostRegs : ~int_regs[i].used /\ ~xmm_regs[i].used

\* C2: after add_unsigned_imm(dest, src, imm) the slot bound to dest holds
\* (value of guest register src before the instruction + imm) mod 2^16.
C2_AddImmResult ==
    [][ (last'.op = "add_unsigned_imm" /\ ~dead') =>
          /\ IsBound(int_regs', last'.a)
          /\ Lo16(gp'[SlotOf(int_regs', last'.a)]) = Lo16(IntValue(last'.b) + last'.c)
      ]_vars

\* C4: in each pool at most one used slot is bound to any given guest id.
C4_OneSlotPerGuestId ==
    \A i, j \in HostRegs :
        i # j =>
          /\ ~(int_regs[i].used /\ int_regs[j].used
               /\ int_regs[i].vu_reg = int_regs[j].vu_reg)
          /\ ~(xmm_regs[i].used /\ xmm_regs[j].used
               /\ xmm_regs[i].vu_reg = xmm_regs[j].vu_reg)

\* C4 witness: an acquire has just evicted a slot of a full integer pool
C4_Witness ==
    /\ last.op = "alloc_int_reg"
    /\ OpsIn(last.out, "MOV64_TO_MEM") # {}
    /\ UsedSlots(int_regs) = Unlocked(int_regs)
    /\ \E i \in HostRegs : xmm_regs[i].used

\* C5 as claimed: a slot bound to G stays bound to G across every operation
\* except an acquire in its pool that rebinds it to a different id, or a flush
\* (reset(), which re-initialises the allocator, is not counted against it).
C5_BoundUntilEvictedOrFlushed ==
    [][ \A i \in HostRegs :
          /\ (int_regs[i].used
              /\ ~(int_regs'[i].used /\ int_regs'[i].vu_reg = int_regs[i].vu_reg))
               => \/ last'.op = "flush_regs"
                  \/ last'.op = "reset"
                  \/ /\ last'.op \in IntAcquirers
                     /\ int_regs'[i].used
                     /\ int_regs'[i].vu_reg # int_regs[i].vu_reg
          /\ (xmm_regs[i].used
              /\ ~(xmm_regs'[i].used /\ xmm_regs'[i].vu_reg = xmm_regs[i].vu_reg))
               => \/ last'.op = "flush_regs"
                  \/ last'.op = "reset"
                  \/ /\ last'.op \in SseAcquirers
                     /\ xmm_regs'[i].used
                     /\ xmm_regs'[i].vu_reg # xmm_regs[i].vu_reg
      ]_vars

\* C5 amended: ... except an acquire in its pool that rebinds it to a different
\* id, a flush, a prepare_abi whose argument register is that slot, or a reset.
C5_BoundUntilEvictedFlushedOrTakenOver ==
    [][ \A i \in HostRegs :
          /\ (int_regs[i].used
              /\ ~(int_regs'[i].used /\ int_regs'[i].vu_reg = int_regs[i].vu_reg))
               => \/ last'.op = "flush_regs"
                  \/ last'.op = "reset"
                  \/ /\ last'.op = "prepare_abi"
                     /\ last'.reg = i
                     /\ ~int_regs'[i].used
                  \/ /\ last'.op \in IntAcquirers
                     /\ int_regs'[i].used
                     /\ int_regs'[i].vu_reg # int_regs[i].vu_reg
          /\ (xmm_regs[i].used
              /\ ~(xmm_regs'[i].used /\ xmm_regs'[i].vu_reg = xmm_regs[i].vu_reg))
               => \/ last'.op = "flush_regs"
                  \/ last'.op = "reset"
                  \/ /\ last'.op \in SseAcquirers
                     /\ xmm_regs'[i].used
                     /\ xmm_regs'[i].vu_reg # xmm_regs[i].vu_reg
      ]_vars

\* C5 witness: prepare_abi has spilled and freed a bound argument register
\* while other slots stay bound
C5_Witness ==
    /\ last.op = "prepare_abi"
    /\ OpsIn(last.out, "MOV64_TO_MEM") # {}
    /\ ~int_regs[last.reg].used
    /\ UsedSlots(int_regs) # {}

\* C6: an acquire of a guest id already bound in the pool returns the bound slot,
\* changes no slot of either pool and emits no code, whatever load_state is.
C6_HitChangesNothing ==
    [][ /\ (last'.op = "alloc_int_reg" /\ IsBound(int_regs, last'.a))
           => /\ last'.reg = SlotOf(int_regs, last'.a)
              /\ int_regs' = int_regs /\ xmm_regs' = xmm_regs
              /\ last'.out = << >>
              /\ UNCHANGED << gp, xm, int_gpr, gpr, PC, abi_int_count, abi_xmm_count >>
        /\ (last'.op = "alloc_sse_reg" /\ IsBound(xmm_regs, last'.a))
           => /\ last'.reg = SlotOf(xmm_regs, last'.a)
              /\ int_regs' = int_regs /\ xmm_regs' = xmm_regs
              /\ last'.out = << >>
              /\ UNCHANGED << gp, xm, int_gpr, gpr, PC, abi_int_count, abi_xmm_count >>
      ]_vars

\* C6 witness: alloc_int_reg with load_state set returned a slot bound to its id
\* and emitted nothing (a miss with load_state emits the fill)
C6_Witness ==
    /\ last.op = "alloc_int_reg"
    /\ last.b = TRUE
    /\ last.reg \in BoundSlots(int_regs, last.a)
    /\ last.out = << >>
    /\ \E i \in HostRegs : int_regs[i].used /\ int_regs[i].age > 0

\* the slot a miss must choose in pool regs (ages after the increment), and, when
\* an unused unlocked slot exists, that no used slot of regs is rebound in after
RightChoice(regs, after, r) ==
    LET unl == Unlocked(regs)
        free == {i \in unl : ~regs[i].used}
    IN IF free # {}
       THEN /\ r \in free
            /\ \A j \in free : r <= j
            /\ \A i \in UsedSlots(regs) :
                   after[i].used /\ after[i].vu_reg = regs[i].vu_reg
       ELSE /\ r \in unl
            /\ regs[r].used
            /\ \A j \in unl :
                   \/ regs[j].age + 1 < regs[r].age + 1
                   \/ (regs[j].age + 1 = regs[r].age + 1 /\ j >= r)

\* C7: on a miss with no unused unlocked slot the slot taken is the unlocked slot
\* of greatest age, the lowest index among equals; with an unused unlocked slot,
\* the lowest-index one is taken and nothing is evicted.
C7_EvictionChoice ==
    [][ /\ (last'.op = "alloc_int_reg" /\ ~dead' /\ ~IsBound(int_regs, last'.a))
           => RightChoice(int_regs, int_regs', last'.reg)
        /\ (last'.op = "alloc_sse_reg" /\ ~dead' /\ ~IsBound(xmm_regs, last'.a))
           => RightChoice(xmm_regs, xmm_regs', last'.reg)
      ]_vars

\* C7 witness: a miss on a full integer pool has spilled a slot and rebound it
C7_Witness ==
    /\ last.op = "alloc_int_reg"
    /\ Len(last.out) >= 2
    /\ last.out[2].op = "MOV64_TO_MEM"
    /\ last.out[2].a = last.reg
    /\ int_regs[last.reg].vu_reg = last.a

\* C8: RAX and RSP stay locked, are never used, and are never returned by an
\* acquire.
C8_LockedNeverAllocated ==
    /\ int_regs[RAX].locked /\ int_regs[RSP].locked
    /\ \A i \in HostRegs : int_regs[i].locked => ~int_regs[i].used
    /\ (last.op = "alloc_int_reg" /\ ~dead) => ~int_regs[last.reg].locked

\* C8 witness: a miss with every unlocked slot used has returned a slot
C8_Witness ==
    /\ last.op = "alloc_int_reg"
    /\ ~dead
    /\ OpsIn(last.out, "MOV64_TO_MEM") # {}
    /\ last.reg # RAX
    /\ \A i \in Unlocked(int_regs) : int_regs[i].used

\* C9: flush_regs stores every used slot bound to a nonzero guest id to that
\* guest register and changes no other guest register.
C9_FlushWritesBack ==
    [][ last'.op = "flush_regs" =>
          /\ \A g \in IntIds :
                int_gpr'[g] = IF g # 0 /\ IsBound(int_regs, g)
                              THEN gp[SlotOf(int_regs, g)] ELSE int_gpr[g]
          /\ \A g \in VfIds :
                gpr'[g] = IF g # 0 /\ IsBound(xmm_regs, g)
                          THEN xm[SlotOf(xmm_regs, g)] ELSE gpr[g]
          /\ PC' = PC
      ]_vars

\* C9 witness: a flush has stored a value written by generated code
C9_Witness ==
    /\ last.op = "flush_regs"
    /\ OpsIn(last.out, "MOV64_TO_MEM") # {}
    /\ OpsIn(last.out, "MOVAPS_TO_MEM") # {}
    /\ \E g \in IntIds : g # 0 /\ Lo16(int_gpr[g]) # Lo16(GuestInt[g])

\* C10: when alloc_int_reg / alloc_sse_reg evicts a slot bound to G, or
\* prepare_abi takes over a register whose slot is bound to G, guest-state memory
\* at G receives the value the register held, stored before the register is
\* overwritten.
C10_SpillBeforeOverwrite ==
    [][ \A i \in HostRegs :
          /\ (/\ last'.op \in {"alloc_int_reg", "prepare_abi"}
              /\ int_regs[i].used
              /\ ~(int_regs'[i].used /\ int_regs'[i].vu_reg = int_regs[i].vu_reg))
               => /\ int_gpr'[int_regs[i].vu_reg] = gp[i]
                  /\ \E k \in OpsIn(last'.out, "MOV64_TO_MEM") :
                        /\ last'.out[k].a = i
                        /\ \A n \in 1 .. k :
                               ~(last'.out[n].op \in {"MOV64_FROM_MEM", "load_addr"}
                                 /\ last'.out[n].b = i)
          /\ (/\ last'.op = "alloc_sse_reg"
              /\ xmm_regs[i].used
              /\ ~(xmm_regs'[i].used /\ xmm_regs'[i].vu_reg = xmm_regs[i].vu_reg))
               => /\ gpr'[xmm_regs[i].vu_reg] = xm[i]
                  /\ \E k \in OpsIn(last'.out, "MOVAPS_TO_MEM") :
                        /\ last'.out[k].a = i
                        /\ \A n \in 1 .. k :
                               ~(last'.out[n].op = "MOVAPS_FROM_MEM"
                                 /\ last'.out[n].b = i)
      ]_vars

\* C10 witness: an eviction followed by a fill of the same host register, the
\* evicted guest register's value now in guest-state memory
C10_Witness ==
    /\ last.op = "alloc_int_reg"
    /\ Len(last.out) = 4
    /\ last.out[2].op = "MOV64_TO_MEM"
    /\ last.out[4].op = "MOV64_FROM_MEM"
    /\ last.out[4].b = last.out[2].a
    /\ \E g \in IntIds : Lo16(int_gpr[g]) # Lo16(GuestInt[g])

\* the guest state: integer registers, vector registers, program counter
GuestState == [int_gpr |-> int_gpr, gpr |-> gpr, PC |-> PC]

\* C3: the same IR block compiled and run twice from the same guest state, the
\* cache entry invalidated in between, leaves the same guest state both times.
C3_RecompileSameEffect ==
    (phase = "ran" /\ runs = 2 /\ compiles = 2) => GuestState = result1

\* the System V order of the integer argument registers
ArgOrder == << RDI, RSI, RDX, RCX, R8, R9 >>

\* C11: abi_int_count is always in 0..6; prepare_abi with the counter at 6 dies
\* without emitting code, writing a register or a slot, or advancing the counter;
\* a successful prepare_abi loads its value into the next of RDI, RSI, RDX, RCX,
\* R8, R9 and advances the counter by one; call_abi_func sets both counters to 0.
C11_ArgumentCounter ==
    /\ abi_int_count \in 0 .. 6
    /\ [][ /\ abi_int_count' \in 0 .. 6
           /\ (last'.op = "prepare_abi" /\ abi_int_count = 6)
              => /\ dead'
                 /\ last'.out = << >>
                 /\ UNCHANGED << abi_int_count, abi_xmm_count, gp, int_regs,
                                 xmm_regs, int_gpr >>
           /\ (last'.op = "prepare_abi" /\ abi_int_count < 6)
              => /\ ~dead'
                 /\ abi_int_count' = abi_int_count + 1
                 /\ last'.reg = ArgOrder[abi_int_count + 1]
                 /\ last'.out[Len(last'.out)]
                       = Ins("load_addr", last'.a, ArgOrder[abi_int_count + 1])
                 /\ gp'[ArgOrder[abi_int_count + 1]] = last'.a
           /\ last'.op = "call_abi_func"
              => abi_int_count' = 0 /\ abi_xmm_count' = 0
         ]_vars

\* C11 witness: the seventh prepare_abi since reset() has taken the fatal path
C11_Witness ==
    /\ last.op = "prepare_abi"
    /\ dead
    /\ abi_int_count = 6
    /\ gp[R9] = last.a

\* C12: on return from run every host general-purpose register other than RAX
\* holds the value it had before the call.
C12_RunPreservesRegisters ==
    phase = "ran" => \A r \in HostRegs \ {RAX} : gp[r] = JunkGp[r]

\* C13: a block made of JumpIndirect(src) alone sets vu.PC to the value of guest
\* register src shifted left by 3, and after the block's flush guest register
\* src holds the value it had before.
C13_JumpIndirectKeepsSource ==
    (/\ phase = "ran" /\ runs = 1
     /\ Len(program.instrs) = 1
     /\ program.instrs[1].op = "JumpIndirect")
      => /\ PC = Shl32(Lo16(GuestInt[program.instrs[1].source]), JumpShift)
         /\ Lo16(int_gpr[program.instrs[1].source])
              = Lo16(GuestInt[program.instrs[1].source])

\* C14: when run returns, RAX equals the block's cycle count.
C14_ReturnsCycleCount ==
    phase = "ran" => gp[RAX] = program.cycles

\* the steps of one compile, in order, and the other moves of run / exec_block
CompileOrder ==
    { <<"exec", "reserved">>, <<"reserved", "emitting">>, <<"emitting", "emitting">>,
      <<"emitting", "flushed">>, <<"flushed", "counted">>, <<"counted", "closed">>,
      <<"closed", "sealed">> }
RunOrder ==
    { <<"idle", "exec">>, <<"exec", "sealed">>, <<"sealed", "ran">>, <<"ran", "idle">> }

\* c is a finished block for cycle count cycles: prologue first; cycle-count
\* load, epilogue and return last
Finished(c, cycles) ==
    /\ Len(c) >= 5
    /\ c[1] = Ins("PUSH", RBP, 0)
    /\ c[2] = Ins("MOV64_MR", RSP, RBP)
    /\ c[Len(c) - 2] = Ins("MOV16_REG_IMM", cycles, RAX)
    /\ c[Len(c) - 1] = Ins("POP", RBP, 0)
    /\ c[Len(c)] = Ins("RET", 0, 0)

\* C15: a compile goes through its steps in order: block reserved (writable,
\* empty), prologue, one handler per IR instruction in block order, flush, cycle
\* count, epilogue, and only then the block is made executable; code is only
\* appended, and only while the block is writable; nothing is emitted into an
\* executable block.
C15_CompileOrder ==
    [][ /\ <<phase, phase'>> \in CompileOrder \cup RunOrder
        /\ (prot' = "rw" /\ prot # "rw") => (code' = << >> /\ phase' = "reserved")
        /\ (prot = "rw" /\ prot' = "rw")
             => /\ Len(code') >= Len(code)
                /\ SubSeq(code', 1, Len(code)) = code
        /\ prot # "rw" => (code' = code \/ (code' = << >> /\ prot' # "rx"))
        /\ (phase = "reserved" /\ phase' = "emitting")
             => code' = << Ins("PUSH", RBP, 0), Ins("MOV64_MR", RSP, RBP) >>
        /\ done' # done
             => \/ done' = << >>
                \/ /\ phase = "emitting"
                   /\ Len(done) < Len(program.instrs)
                   /\ done' = Append(done, program.instrs[Len(done) + 1])
        /\ (phase = "emitting" /\ phase' = "flushed")
             => /\ done = program.instrs
                /\ \A i \in HostRegs :
                     ~FlushCond(int_regs'[i]) /\ ~FlushCond(xmm_regs'[i])
        /\ (prot' = "rx" /\ prot # "rx")
             => /\ prot = "rw"
                /\ phase = "closed"
                /\ code' = code
                /\ Finished(code, program.cycles)
      ]_vars

\* C15 witness: a second compile of a two-instruction block has been made
\* executable, its code holding flush stores
C15_Witness ==
    /\ phase = "sealed"
    /\ prot = "rx"
    /\ compiles = 2
    /\ Len(program.instrs) = 2
    /\ OpsIn(code, "MOV64_TO_MEM") # {}

\* the opcodes the switch of recompile_block knows
KnownOps == {"LoadConst", "MoveIntReg", "Jump", "JumpAndLink", "VMulVectorByScalar",
             "JumpIndirect", "AddUnsignedImm"}

\* an instruction that cannot be compiled: unknown opcode, or a register operand
\* of its handler that is 16 or more
Uncompilable(instr) ==
    \/ instr.op \notin KnownOps
    \/ instr.op \in {"LoadConst", "MoveIntReg", "JumpAndLink", "AddUnsignedImm"}
         /\ instr.dest >= 16
    \/ instr.op \in {"MoveIntReg", "JumpIndirect", "AddUnsignedImm"}
         /\ instr.source >= 16

\* C16: a compile, once begun, ends with its block executable or with the fatal
\* error; while it runs, the instructions taken so far followed by those left
\* are the block, in order; a compile of a block holding an instruction that
\* cannot be compiled dies at the first such instruction and never makes its
\* block executable.
C16_CompileTerminates ==
    /\ [](phase \in CompilePhases => done \o block = program.instrs)
    /\ [](dead => /\ prot = "rw"
                  /\ done # << >>
                  /\ Uncompilable(done[Len(done)])
                  /\ \A k \in 1 .. (Len(done) - 1) : ~Uncompilable(done[k]))
    /\ []((\E k \in 1 .. Len(program.instrs) : Uncompilable(program.instrs[k]))
            => prot # "rx")
    /\ (phase = "reserved") ~> (prot = "rx" \/ dead)

\* C16 witness: a compile has died at the second instruction of its block
C16_Witness ==
    /\ dead
    /\ prot = "rw"
    /\ Len(done) = 2
    /\ block = << >>
    /\ code # << >>

\* C17: when recompile_block has handled VMulVectorByScalar(dest), a used slot
\* of the vector pool is bound to dest.
C17_MulAcquiresDest ==
    [][ (phase = "emitting" /\ done' # done /\ Head(block).op = "VMulVectorByScalar")
          => IsBound(xmm_regs', Head(block).dest)
      ]_vars

\* C18: alloc_int_reg with an id outside 0..15, and alloc_sse_reg with an id
\* outside 0..31, dies before any slot is changed and any code is emitted; no
\* used slot is ever bound to an id outside its pool's range.
C18_OutOfRangeIsFatal ==
    [][ /\ (last'.op = "alloc_int_reg" /\ last'.a \notin 0 .. 15)
           => /\ dead'
              /\ last'.out = << >>
              /\ UNCHANGED << int_regs, xmm_regs >>
        /\ (last'.op = "alloc_sse_reg" /\ last'.a \notin 0 .. 31)
           => /\ dead'
              /\ last'.out = << >>
              /\ UNCHANGED << int_regs, xmm_regs >>
        /\ \A i \in HostRegs :
             /\ int_regs'[i].used => int_regs'[i].vu_reg \in 0 .. 15
             /\ xmm_regs'[i].used => xmm_regs'[i].vu_reg \in 0 .. 31
      ]_vars

\* C19: when move_int_reg or add_unsigned_imm with dest # src emits its code
\* (from a pool whose used slots are all bound to ids in 0..15), the host
\* registers it uses for dest and src are distinct, the first is bound to dest
\* and the second to src.
C19_OperandsKeepTheirSlots ==
    [][ (/\ last'.op \in {"move_int_reg", "add_unsigned_imm"}
         /\ last'.a # last'.b
         /\ \A i \in HostRegs : int_regs[i].used => int_regs[i].vu_reg \in IntIds
         /\ ~dead')
          => \A k \in OpsIn(last'.out, "MOV16_REG") :
               /\ last'.out[k].a # last'.out[k].b
               /\ int_regs'[last'.out[k].b].used
               /\ int_regs'[last'.out[k].b].vu_reg = last'.a
               /\ int_regs'[last'.out[k].a].used
               /\ int_regs'[last'.out[k].a].vu_reg = last'.b
      ]_vars

\* the used slots of a pool have pairwise distinct ages
AgesDistinct(regs) ==
    \A i, j \in HostRegs :
        (i # j /\ regs[i].used /\ regs[j].used) => regs[i].age # regs[j].age

\* the slots of after that were bound during the step from regs
Rebound(regs, after) ==
    {i \in HostRegs :
        after[i].used /\ ~(regs[i].used /\ regs[i].vu_reg = after[i].vu_reg)}

\* a used slot of age 0 was bound in this step, or nothing was bound in this
\* step and it was the used slot of age 0 before
ZeroIsNewest(regs, after) ==
    \A i \in HostRegs :
        (after[i].used /\ after[i].age = 0)
          => \/ i \in Rebound(regs, after)
             \/ Rebound(regs, after) = {} /\ regs[i].used /\ regs[i].age = 0

\* C20: in each pool the used slots have pairwise distinct ages, and a used slot
\* of age 0 is the most recently bound one.
C20_AgesDistinct ==
    /\ AgesDistinct(int_regs) /\ AgesDistinct(xmm_regs)
    /\ [][ /\ AgesDistinct(int_regs') /\ AgesDistinct(xmm_regs')
           /\ ZeroIsNewest(int_regs, int_regs')
           /\ ZeroIsNewest(xmm_regs, xmm_regs')
         ]_vars

\* C20 witness: an eviction from a full integer pool, fourteen ages in use
C20_Witness ==
    /\ last.op = "alloc_int_reg"
    /\ OpsIn(last.out, "MOV64_TO_MEM") # {}
    /\ UsedSlots(int_regs) = Unlocked(int_regs)
    /\ int_regs[last.reg].age = 0
    /\ Cardinality({int_regs[i].age : i \in UsedSlots(int_regs)}) = 14

====
